---- MODULE Spec2Model ----
(***************************************************************************)
(* k8s-api-bench: the benchmark runner (measureTime, runBenchmark), the    *)
(* results store (BenchmarkResults.Add), the statistics engine            *)
(* (CalculateStats), the report (PrintStats) and the order in which main  *)
(* drives them, modelled from src/main.go.                                 *)
(*                                                                         *)
(* Durations are time.Duration values, int64 nanoseconds.  The samples of  *)
(* the model are small, so no sum comes near 2^63 and the int64 additions  *)
(* of CalculateStats are exact, as they are for every duration            *)
(* time.Since can return within the lifetime of one process.               *)
(***************************************************************************)
EXTENDS Bags, FiniteSets, Integers, Sequences, TLC

\* ------------------------------------------------------------------------
\* Bounds of the model.
\* ------------------------------------------------------------------------

\* Longest Series the callers of the store build.
MaxLen == 4

\* Largest iteration count passed to runBenchmark (flag -iterations).
MaxIter == 3

\* CalculateStats calls in a row that are counted.
MaxReads == 2

\* Largest Series length for which the p95 rank is compared with the exact
\* rational ceil(19 n / 20).
MaxRank == 40

\* The durations a trial can take, in nanoseconds.
Durs == {1, 2}

\* The operation names callers of the store use.
OpNames == {"list namespaces", "list API resources"}

\* Most namespaces the cluster lists to main.
MaxNs == 1

\* Most trials of one run of main: main starts only when the operations it
\* benchmarks times the iteration count stay within it.
MaxTrials == 9

\* The namespaces of the cluster, in the order the API server lists them.
NsNames == <<"default", "kube-system">>

\* ------------------------------------------------------------------------
\* State.
\* ------------------------------------------------------------------------
VARIABLES
    Results,     \* BenchmarkResults.Results: operation name -> Series
    stats,       \* the map CalculateStats returned, while its caller holds it
    reads,       \* how many times CalculateStats has returned since the last
                 \* Add, counted up to MaxReads; 0 when stats is out of date
    report,      \* the operation column PrintStats printed, top to bottom
    pc,          \* where the program is: "idle" (between calls of a caller
                 \* of the store), "start", "main", "done", "exit" (main),
                 \* "runBenchmark" (in the loop of runBenchmark)
    name,        \* runBenchmark's parameter name
    iterations,  \* runBenchmark's parameter iterations
    i,           \* runBenchmark's loop counter
    added,       \* history: per operation name, the bag of durations Added
    pre,         \* history: Results when runBenchmark was called
    trials,      \* history: outcome of each trial of the running runBenchmark,
                 \* <<d>> for a success that took d, <<>> for an error
    namespaces,  \* main: the names of namespaces.Items
    next,        \* main: position of its next runBenchmark call, from 1
    log          \* history: main's trials so far, by operation name

vars == <<Results, stats, reads, report, pc, name, iterations, i,
          added, pre, trials, namespaces, next, log>>

storeVars == <<Results, stats, reads, report, added>>
callVars == <<name, iterations, i, pre, trials>>
mainVars == <<namespaces, next, log>>

Seq2Set(s) == {s[k] : k \in DOMAIN s}

\* ------------------------------------------------------------------------
\* The store.
\* ------------------------------------------------------------------------

\* br.Results[operation] of a Go map: the nil slice when the key is absent.
Get(res, operation) ==
    IF operation \in DOMAIN res THEN res[operation] ELSE <<>>

\* Add: br.Results[operation] = append(br.Results[operation], duration).
Add(res, operation, duration) ==
    [op \in DOMAIN res \cup {operation} |->
        IF op = operation THEN Append(Get(res, operation), duration)
                          ELSE res[op]]

\* ------------------------------------------------------------------------
\* The statistics engine.
\* ------------------------------------------------------------------------

\* durations[k] with Go's 0-based index.
At(durations, k) == durations[k + 1]

RECURSIVE Insert(_, _)
Insert(sorted, d) ==
    IF sorted = <<>> THEN <<d>>
    ELSE IF d < Head(sorted) THEN <<d>> \o sorted
    ELSE <<Head(sorted)>> \o Insert(Tail(sorted), d)

RECURSIVE InsertUnique(_, _)
InsertUnique(sorted, d) ==
    IF sorted = <<>> THEN <<d>>
    ELSE IF d < Head(sorted) THEN <<d>> \o sorted
    ELSE IF d = Head(sorted) THEN sorted
    ELSE <<Head(sorted)>> \o InsertUnique(Tail(sorted), d)

RECURSIVE SortSliceDedup(_)
\* Mutant of SortSlice: sorting through a set of the values, which drops
\* repeated durations.
SortSliceDedup(durations) ==
    IF durations = <<>> THEN <<>>
    ELSE InsertUnique(SortSliceDedup(SubSeq(durations, 1, Len(durations) - 1)),
                      durations[Len(durations)])

RECURSIVE SortSlice(_)
\* sort.Slice(durations, less) with less(i, j) = durations[i] < durations[j]:
\* the same elements in ascending order.  The slice shares its array with
\* br.Results[op], so the caller stores the result back (see CalculateStats).
SortSlice(durations) ==
    IF durations = <<>> THEN <<>>
    ELSE Insert(SortSlice(SubSeq(durations, 1, Len(durations) - 1)),
                durations[Len(durations)])

RECURSIVE SumOf(_)
\* sum += d over the Series.
SumOf(durations) ==
    IF durations = <<>> THEN 0 ELSE Head(durations) + SumOf(Tail(durations))

RECURSIVE MinFrom(_, _)
MinFrom(min, durations) ==
    IF durations = <<>> THEN min
    ELSE MinFrom(IF Head(durations) < min THEN Head(durations) ELSE min,
                 Tail(durations))

\* Mutant of MinOf: min starts at the zero Duration, not at durations[0].
MinOfFromZero(durations) == MinFrom(0, durations)

\* min := durations[0]; for each d: if d < min { min = d }.
MinOf(durations) == MinFrom(At(durations, 0), durations)

RECURSIVE MaxFrom(_, _)
MaxFrom(max, durations) ==
    IF durations = <<>> THEN max
    ELSE MaxFrom(IF Head(durations) > max THEN Head(durations) ELSE max,
                 Tail(durations))

\* max := durations[0]; for each d: if d > max { max = d }.
MaxOf(durations) == MaxFrom(At(durations, 0), durations)

\* avg := sum / time.Duration(len(durations)); Go's integer division, which
\* rounds toward zero (the sum is never negative here).
AvgOf(durations) == SumOf(durations) \div Len(durations)

\* Mutant of Median: the even case is left out.
MedianUpperMiddle(durations) == At(durations, Len(durations) \div 2)

\* Mutant of Median: the two middle elements are added and not halved.
MedianSumOfMiddle(durations) ==
    LET n == Len(durations) IN
    IF n % 2 = 0
    THEN At(durations, n \div 2 - 1) + At(durations, n \div 2)
    ELSE At(durations, n \div 2)

\* median := durations[len/2]; if len%2 == 0, the mean of the two middle
\* elements, again by integer division.
Median(durations) ==
    LET n == Len(durations) IN
    IF n % 2 = 0
    THEN (At(durations, n \div 2 - 1) + At(durations, n \div 2)) \div 2
    ELSE At(durations, n \div 2)

\* The float64 constant 0.95 is Mant * 2^-53 with
\* Mant = 8556839292003942 = Mant2 * Base^2 + Mant1 * Base + Mant0.
Base == 1048576
Mant2 == 7782
Mant1 == 419430
Mant0 == 419430

\* 2^13: Base^2 * HiUnit = 2^53, the weight of 1.0 in units of 2^-53.
HiUnit == 8192

\* The number of bits of x, for 0 <= x < 2^31.
BitLen(x) == Cardinality({k \in 0..30 : 2 ^ k <= x})

\* For n >= 1, float64(n) * 0.95 in units of 2^-53, as three limbs <<hi, mid, lo>> in
\* base Base: the exact product n * Mant rounded to 53 significant bits,
\* ties to even, as IEEE 754 multiplication rounds it.
MulFloat95(n) ==
    LET q0 == n * Mant0
        q1 == n * Mant1 + q0 \div Base
        q2 == n * Mant2 + q1 \div Base
        p0 == q0 % Base
        p1 == q1 % Base
        ulp == 2 ^ (BitLen(q2) - 13)
        rest == p0 % ulp
        up == \/ 2 * rest > ulp
              \/ 2 * rest = ulp /\ (p0 \div ulp) % 2 = 1
        r0 == p0 - rest + (IF up THEN ulp ELSE 0)
        r1 == p1 + r0 \div Base
        r2 == q2 + r1 \div Base
    IN  <<r2, r1 % Base, r0 % Base>>

\* int(math.Ceil(float64(n) * 0.95)).
CeilFloat95(n) ==
    LET p == MulFloat95(n) IN
    p[1] \div HiUnit
        + (IF p[1] % HiUnit # 0 \/ p[2] # 0 \/ p[3] # 0 THEN 1 ELSE 0)

RECURSIVE Tabulate(_)
\* CeilFloat95 as an explicit function on 1..k.
Tabulate(k) ==
    IF k = 1 THEN (1 :> CeilFloat95(1))
    ELSE Tabulate(k - 1) @@ (k :> CeilFloat95(k))

\* CeilFloat95 for every Series length the model asks about, computed once.
CeilFloat95Of == Tabulate(MaxRank + MaxLen)

\* Mutant of P95Index: the rank is not turned into a 0-based index.
P95IndexOneBased(n) ==
    LET p95Index == CeilFloat95Of[n] IN
    IF p95Index >= n THEN n - 1 ELSE p95Index

\* p95Index := int(math.Ceil(float64(len(durations))*0.95)) - 1, and the
\* clamp to len(durations) - 1.
P95Index(n) ==
    LET p95Index == CeilFloat95Of[n] - 1 IN
    IF p95Index >= n THEN n - 1 ELSE p95Index

\* The five statistics of one sorted, non-empty Series.
Summary(durations) ==
    [min    |-> MinOf(durations),
     max    |-> MaxOf(durations),
     avg    |-> AvgOf(durations),
     median |-> Median(durations),
     p95    |-> At(durations, P95Index(Len(durations)))]

\* What the range loop of CalculateStats leaves in the store: every
\* non-empty Series sorted in place.
SortedStore(res) ==
    [op \in DOMAIN res |->
        IF Len(res[op]) = 0 THEN res[op] ELSE SortSlice(res[op])]

\* Mutant of CalculateStats: the median is read before the Series is sorted.
CalculateStatsMedianBeforeSort(res) ==
    [Results |-> SortedStore(res),
     stats   |-> [op \in {o \in DOMAIN res : Len(res[o]) # 0} |->
                     [Summary(SortedStore(res)[op])
                         EXCEPT !.median = Median(res[op])]]]

\* CalculateStats: the store it leaves and the map it returns.  An empty
\* Series is skipped (continue); every other one is sorted in place and
\* summarised.
CalculateStats(res) ==
    [Results |-> SortedStore(res),
     stats   |-> [op \in {o \in DOMAIN res : Len(res[o]) # 0} |->
                     Summary(SortedStore(res)[op])]]

\* One more return of CalculateStats with no Add since the last one.
CountRead(n) == IF n < MaxReads THEN n + 1 ELSE n

\* ------------------------------------------------------------------------
\* The report.
\* ------------------------------------------------------------------------

\* Every operation name of the model in the byte order sort.Strings uses.
NameOrder ==
    <<"list API resources",
      "list ConfigMaps in namespace default",
      "list ConfigMaps in namespace kube-system",
      "list Custom Resource Definitions",
      "list Secrets in namespace default",
      "list Secrets in namespace kube-system",
      "list all API resources",
      "list deployments in namespace default",
      "list deployments in namespace kube-system",
      "list namespaces",
      "list pods in namespace default",
      "list pods in namespace kube-system",
      "list services in namespace default",
      "list services in namespace kube-system">>

\* sort.Strings over the keys of a map.
SortStrings(operations) ==
    LET In(op) == op \in operations IN SelectSeq(NameOrder, In)

\* PrintStats: it calls CalculateStats and prints one row per operation of
\* the returned map, sorted by name.
PrintStats(res) ==
    LET c == CalculateStats(res) IN
    [Results |-> c.Results,
     stats   |-> c.stats,
     report  |-> SortStrings(DOMAIN c.stats)]

\* ------------------------------------------------------------------------
\* The runner.
\* ------------------------------------------------------------------------

\* Mutant of MeasureTime: the duration is stored whether or not f failed.
MeasureTimeAlwaysAdds(res, operation, err, duration) ==
    Add(res, operation, duration)

\* Mutant of MeasureTime: a failed trial is stored as a zero duration.
MeasureTimeZeroOnError(res, operation, err, duration) ==
    Add(res, operation, IF err THEN 0 ELSE duration)

\* measureTime: the store after one trial that returned err after duration.
MeasureTime(res, operation, err, duration) ==
    IF err THEN res ELSE Add(res, operation, duration)

\* Mutant of LoopCond: i <= iterations.
LoopCondInclusive(k, n) == k <= n

\* The loop condition of runBenchmark: i < iterations.
LoopCond(k, n) == k < n

\* The bag of durations Added under each name, after one more Add.
Record(bags, operation, duration) ==
    [bags EXCEPT ![operation] = @ (+) SetToBag({duration})]

\* One trial that succeeds after d: measureTime adds the Sample and the
\* loop counts the iteration.
TrialOk ==
    /\ pc = "runBenchmark"
    /\ LoopCond(i, iterations)
    /\ \E d \in Durs :
          /\ Results' = MeasureTime(Results, name, FALSE, d)
          /\ added' = Record(added, name, d)
          /\ trials' = Append(trials, <<d>>)
    /\ stats' = <<>>
    /\ reads' = 0
    /\ i' = i + 1
    /\ UNCHANGED <<report, pc, name, iterations, pre>>

\* One trial that fails: measureTime prints the error and adds nothing.
TrialErr ==
    /\ pc = "runBenchmark"
    /\ LoopCond(i, iterations)
    /\ \E d \in Durs : Results' = MeasureTime(Results, name, TRUE, d)
    /\ trials' = Append(trials, <<>>)
    /\ i' = i + 1
    /\ UNCHANGED <<stats, reads, report, added, pc, name, iterations, pre>>

\* ------------------------------------------------------------------------
\* A caller of the store: any order of Add, CalculateStats, PrintStats and
\* runBenchmark calls, one at a time.
\* ------------------------------------------------------------------------

Init ==
    /\ Results = <<>>
    /\ stats = <<>>
    /\ reads = 0
    /\ report = <<>>
    /\ pc = "idle"
    /\ name = ""
    /\ iterations = 1
    /\ i = 0
    /\ added = [op \in Seq2Set(NameOrder) |-> EmptyBag]
    /\ pre = <<>>
    /\ trials = <<>>
    /\ namespaces = <<>>
    /\ next = 0
    /\ log = <<>>

AddCall ==
    /\ pc = "idle"
    /\ \E op \in OpNames, d \in Durs :
          /\ Len(Get(Results, op)) < MaxLen
          /\ Results' = Add(Results, op, d)
          /\ added' = Record(added, op, d)
    /\ stats' = <<>>
    /\ reads' = 0
    /\ UNCHANGED <<report, pc>>
    /\ UNCHANGED <<callVars, mainVars>>

CalculateStatsCall ==
    /\ pc = "idle"
    /\ Results' = CalculateStats(Results).Results
    /\ stats' = CalculateStats(Results).stats
    /\ reads' = CountRead(reads)
    /\ UNCHANGED <<report, added, pc>>
    /\ UNCHANGED <<callVars, mainVars>>

PrintStatsCall ==
    /\ pc = "idle"
    /\ Results' = PrintStats(Results).Results
    /\ stats' = PrintStats(Results).stats
    /\ report' = PrintStats(Results).report
    /\ reads' = CountRead(reads)
    /\ UNCHANGED <<added, pc>>
    /\ UNCHANGED <<callVars, mainVars>>

RunBenchmarkCall ==
    /\ pc = "idle"
    /\ \E op \in OpNames, n \in 0..MaxIter :
          /\ Len(Get(Results, op)) + n <= MaxLen
          /\ name' = op
          /\ iterations' = n
    /\ i' = 0
    /\ pre' = Results
    /\ trials' = <<>>
    /\ pc' = "runBenchmark"
    /\ UNCHANGED <<storeVars, mainVars>>

CallerTrialOk == TrialOk /\ UNCHANGED mainVars

CallerTrialErr == TrialErr /\ UNCHANGED mainVars

\* runBenchmark returns to the caller; its frame is gone.
RunBenchmarkReturn ==
    /\ pc = "runBenchmark"
    /\ ~LoopCond(i, iterations)
    /\ pc' = "idle"
    /\ name' = ""
    /\ iterations' = 1
    /\ i' = 0
    /\ pre' = <<>>
    /\ trials' = <<>>
    /\ UNCHANGED <<storeVars, mainVars>>

Next ==
    \/ AddCall
    \/ CalculateStatsCall
    \/ PrintStatsCall
    \/ RunBenchmarkCall
    \/ CallerTrialOk
    \/ CallerTrialErr
    \/ RunBenchmarkReturn

Spec == Init /\ [][Next]_vars

\* ------------------------------------------------------------------------
\* main: one run of the program.
\* ------------------------------------------------------------------------

RECURSIVE NsOps(_)
\* The five runBenchmark calls of the namespace loop, for each namespace.
NsOps(nss) ==
    IF nss = <<>> THEN <<>>
    ELSE <<"list pods in namespace " \o Head(nss),
           "list deployments in namespace " \o Head(nss),
           "list services in namespace " \o Head(nss),
           "list ConfigMaps in namespace " \o Head(nss),
           "list Secrets in namespace " \o Head(nss)>> \o NsOps(Tail(nss))

\* The names of main's runBenchmark calls, in program order.
MainOps(nss) ==
    <<"list namespaces">> \o NsOps(nss)
        \o <<"list API resources", "list all API resources",
             "list Custom Resource Definitions">>

\* Mutant of BenchmarkingComplete: PrintStats follows the first runBenchmark
\* call.
BenchmarkingCompleteEarly(k, ops) == k > 1

\* main reaches "Benchmarking complete!" and PrintStats once its last
\* runBenchmark call has returned.
BenchmarkingComplete(k, ops) == k > Len(ops)

\* The flag -iterations, before main has checked it.
InitMain ==
    /\ Results = <<>>
    /\ stats = <<>>
    /\ reads = 0
    /\ report = <<>>
    /\ pc = "start"
    /\ name = ""
    /\ iterations \in 0..MaxIter
    /\ i = 0
    /\ added = [op \in Seq2Set(NameOrder) |-> EmptyBag]
    /\ pre = <<>>
    /\ trials = <<>>
    /\ namespaces = <<>>
    /\ next = 0
    /\ log = <<>>

\* iterations < 1, or the kubeconfig, the client or the first namespace
\* listing fails: os.Exit(1).
MainExit ==
    /\ pc = "start"
    /\ pc' = "exit"
    /\ UNCHANGED <<storeVars, callVars, mainVars>>

\* The set-up succeeds and the cluster lists its namespaces.
MainSetup ==
    /\ pc = "start"
    /\ ~(iterations < 1)
    /\ \E k \in 0..MaxNs :
          /\ k <= Len(NsNames)
          /\ Len(MainOps(SubSeq(NsNames, 1, k))) * iterations <= MaxTrials
          /\ namespaces' = SubSeq(NsNames, 1, k)
    /\ next' = 1
    /\ pc' = "main"
    /\ UNCHANGED <<storeVars, callVars, log>>

\* main's next runBenchmark call.
MainRunBenchmark ==
    /\ pc = "main"
    /\ ~BenchmarkingComplete(next, MainOps(namespaces))
    /\ name' = MainOps(namespaces)[next]
    /\ i' = 0
    /\ pre' = Results
    /\ trials' = <<>>
    /\ pc' = "runBenchmark"
    /\ UNCHANGED <<storeVars, iterations, mainVars>>

MainTrialOk ==
    /\ TrialOk
    /\ log' = Append(log, name)
    /\ UNCHANGED <<namespaces, next>>

MainTrialErr ==
    /\ TrialErr
    /\ log' = Append(log, name)
    /\ UNCHANGED <<namespaces, next>>

\* runBenchmark returns to main, which goes on to its next statement.
MainResume ==
    /\ pc = "runBenchmark"
    /\ ~LoopCond(i, iterations)
    /\ pc' = "main"
    /\ next' = next + 1
    /\ name' = ""
    /\ i' = 0
    /\ pre' = <<>>
    /\ trials' = <<>>
    /\ UNCHANGED <<storeVars, iterations, namespaces, log>>

\* benchmarkResults.PrintStats(), main's last statement.
MainPrintStats ==
    /\ pc = "main"
    /\ BenchmarkingComplete(next, MainOps(namespaces))
    /\ Results' = PrintStats(Results).Results
    /\ stats' = PrintStats(Results).stats
    /\ report' = PrintStats(Results).report
    /\ reads' = CountRead(reads)
    /\ pc' = "done"
    /\ UNCHANGED <<added, callVars, mainVars>>

NextMain ==
    \/ MainExit
    \/ MainSetup
    \/ MainRunBenchmark
    \/ MainTrialOk
    \/ MainTrialErr
    \/ MainResume
    \/ MainPrintStats

SpecMain == InitMain /\ [][NextMain]_vars

\* main is one thread whose every statement completes once each API call it
\* makes returns: a step that can be taken is taken.
FairSpecMain == SpecMain /\ WF_vars(NextMain)

\* ------------------------------------------------------------------------
\* Vocabulary of the properties.
\* ------------------------------------------------------------------------

\* Every operation name the program can use.
AllNames == Seq2Set(NameOrder)

\* The bag of the elements of a sequence.
BagOf(s) == [x \in Seq2Set(s) |-> Cardinality({k \in DOMAIN s : s[k] = x})]

\* The element at 0-based rank k of s in ascending order: fewer than k + 1
\* elements are below it and at least k + 1 are not above it.
OrderStat(s, k) ==
    CHOOSE x \in Seq2Set(s) :
        /\ Cardinality({j \in DOMAIN s : s[j] < x}) <= k
        /\ k < Cardinality({j \in DOMAIN s : s[j] <= x})

\* ceil(a / b) for a >= 0, b > 0, in integers.
CeilDiv(a, b) == (a + b - 1) \div b

\* The operation names with at least one recorded Sample.
Sampled == {op \in AllNames : added[op] # EmptyBag}

RECURSIVE Successes(_)
\* The durations of the successful trials, in trial order.
Successes(ts) ==
    IF ts = <<>> THEN <<>> ELSE Head(ts) \o Successes(Tail(ts))

\* The number of failed trials.
Failures(ts) == Cardinality({k \in DOMAIN ts : ts[k] = <<>>})

IsPrefix(s, t) == Len(s) <= Len(t) /\ s = SubSeq(t, 1, Len(s))

\* How often op occurs in a log.
Count(l, op) == Cardinality({k \in DOMAIN l : l[k] = op})

RECURSIVE Schedule(_, _)
\* n trials of the first operation, then n of the second, and so on.
Schedule(ops, n) ==
    IF ops = <<>> THEN <<>>
    ELSE [k \in 1..n |-> Head(ops)] \o Schedule(Tail(ops), n)

\* ------------------------------------------------------------------------
\* Properties.
\* ------------------------------------------------------------------------

\* C1: CalculateStats and PrintStats leave the store unchanged: every Series
\* is the same sequence, in insertion order, after the call as before it.
C1_StatsLeaveStoreUnchanged ==
    [][(CalculateStatsCall \/ PrintStatsCall) => Results' = Results]_vars

\* C2: while runBenchmark(name, N, f, results) runs and when it returns, the
\* Series of name is the Series at the call followed by one Sample per
\* successful trial, in trial order, and nothing for a failed trial; at the
\* return it has grown by N minus the number of failed trials; every other
\* Series is as it was at the call.
C2_OneSamplePerSuccessfulTrial ==
    pc = "runBenchmark" =>
        /\ \A op \in AllNames :
              Get(Results, op) =
                  IF op = name THEN Get(pre, name) \o Successes(trials)
                               ELSE Get(pre, op)
        /\ DOMAIN pre \subseteq DOMAIN Results
        /\ DOMAIN Results \subseteq DOMAIN pre \cup {name}
        /\ ~LoopCond(i, iterations) =>
              Len(Get(Results, name)) =
                  Len(Get(pre, name)) + iterations - Failures(trials)

\* C2 witness: N = 3 and only the 2nd trial failed: the Series, which held a
\* Sample before the call, has grown by 2.
C2_Witness ==
    /\ pc = "runBenchmark"
    /\ ~LoopCond(i, iterations)
    /\ iterations = 3
    /\ trials = << <<1>>, <<>>, <<2>> >>
    /\ Len(Get(pre, name)) = 1
    /\ Len(Get(Results, name)) = 3
    /\ \E op \in DOMAIN pre : op # name

\* The trial count of runBenchmark and of a finished run of main.
TrialCounts ==
    /\ pc = "runBenchmark" => Len(trials) = i /\ i <= iterations
    /\ (pc = "runBenchmark" /\ ~LoopCond(i, iterations)) =>
          Len(trials) = iterations
    /\ pc = "done" =>
          \A k \in DOMAIN MainOps(namespaces) :
              Count(log, MainOps(namespaces)[k]) = iterations

\* C3: runBenchmark runs exactly `iterations` trials before it returns,
\* whatever their outcomes, and provided every invocation returns, a run of
\* main that got past its set-up reaches the end of main, having run every
\* one of its operations exactly `iterations` times: no failed trial is
\* retried, ends the loop early or stops the run.
C3_ExactlyIterationsTrials ==
    /\ []TrialCounts
    /\ (pc = "main") ~> (pc = "done")

\* C3 witness: main is done with 2 iterations; both trials of its first
\* operation failed, one trial of its second failed, and its last operation
\* still recorded both of its trials.
C3_Witness ==
    /\ pc = "done"
    /\ iterations = 2
    /\ MainOps(namespaces)[1] \notin DOMAIN Results
    /\ Len(Get(Results, MainOps(namespaces)[2])) = 1
    /\ Len(Get(Results, MainOps(namespaces)[Len(MainOps(namespaces))])) = 2

\* C4: the p95 CalculateStats returns for a Series of n >= 1 samples is the
\* sample at 0-based rank ceil(0.95 n) - 1 in ascending order, and that rank,
\* which the code computes in float64, is in 0..n-1 and is the exact
\* ceil(19 n / 20) - 1 for every n up to MaxRank.
C4_P95NearestRank ==
    /\ reads > 0 =>
          \A op \in DOMAIN stats :
              LET n == Len(Results[op])
                  rank == CeilDiv(19 * n, 20) - 1
              IN  /\ n >= 1
                  /\ rank \in 0..(n - 1)
                  /\ stats[op].p95 = OrderStat(Results[op], rank)
    /\ \A n \in 1..MaxRank :
          /\ P95Index(n) = CeilDiv(19 * n, 20) - 1
          /\ P95Index(n) \in 0..(n - 1)

\* C4 witness: a Series of 4 samples, not all equal, whose p95 is the sample
\* of rank 3, its largest.
C4_Witness ==
    /\ reads > 0
    /\ \E op \in DOMAIN stats :
          /\ Len(Results[op]) = 4
          /\ BagOf(Results[op]) = (1 :> 3) @@ (2 :> 1)
          /\ stats[op].p95 = 2

\* C5: the median CalculateStats returns is the middle sample in ascending
\* order when n is odd, and the mean of the two middle samples when n is
\* even, rounded down to a whole nanosecond.
C5_Median ==
    reads > 0 =>
        \A op \in DOMAIN stats :
            LET s == Results[op]
                n == Len(s)
                lo == OrderStat(s, n \div 2 - 1)
                hi == OrderStat(s, n \div 2)
            IN  IF n % 2 = 1
                THEN stats[op].median = OrderStat(s, (n - 1) \div 2)
                ELSE lo + hi - 2 * stats[op].median \in {0, 1}

\* C5 witness: one Series of 4 samples with middle samples 1 and 2 and
\* median 1, and one of 3 samples with median 2.
C5_Witness ==
    /\ reads > 0
    /\ \E op \in DOMAIN stats :
          /\ BagOf(Results[op]) = (1 :> 2) @@ (2 :> 2)
          /\ stats[op].median = 1
    /\ \E op \in DOMAIN stats :
          /\ BagOf(Results[op]) = (1 :> 1) @@ (2 :> 2)
          /\ stats[op].median = 2

\* C6: in every Summary min and max are the smallest and the largest sample,
\* median, avg and p95 lie between them, and when all samples are equal all
\* five statistics are that sample.
C6_SummaryWithinExtrema ==
    reads > 0 =>
        \A op \in DOMAIN stats :
            LET s == Results[op]
                st == stats[op]
            IN  /\ st.min = OrderStat(s, 0)
                /\ st.max = OrderStat(s, Len(s) - 1)
                /\ st.min <= st.median /\ st.median <= st.max
                /\ st.min <= st.avg /\ st.avg <= st.max
                /\ st.min <= st.p95 /\ st.p95 <= st.max
                /\ Cardinality(Seq2Set(s)) = 1 =>
                      \A x \in Seq2Set(s) :
                          st = [min |-> x, max |-> x, avg |-> x,
                                median |-> x, p95 |-> x]

\* C6 witness: one Series of a single sample, all of whose statistics are
\* that sample, next to a Series whose avg is strictly between min and max.
C6_Witness ==
    /\ reads > 0
    /\ \E op \in DOMAIN stats :
          /\ Results[op] = <<2>>
          /\ stats[op] = [min |-> 2, max |-> 2, avg |-> 2,
                          median |-> 2, p95 |-> 2]
    /\ \E op \in DOMAIN stats :
          /\ Len(Results[op]) = 3
          /\ stats[op].min = 1
          /\ stats[op].max = 2

\* C7: the operation names of the map CalculateStats returns, and the rows
\* PrintStats prints, are exactly the names with at least one recorded
\* Sample.
C7_OnlySampledOperations ==
    /\ [](reads > 0 => DOMAIN stats = Sampled)
    /\ [][PrintStatsCall => Seq2Set(report') = Sampled']_vars

\* C7 witness: statistics are up to date, they have a row, and runBenchmark
\* is about to return from an operation whose every trial failed and that
\* has no row.
C7_Witness ==
    /\ reads > 0
    /\ DOMAIN stats # {}
    /\ pc = "runBenchmark"
    /\ ~LoopCond(i, iterations)
    /\ trials = << <<>>, <<>> >>
    /\ name \notin DOMAIN stats

\* C8: a CalculateStats call that follows another with no Add in between
\* returns the map the first one returned.
C8_Idempotent ==
    [][(reads > 0 /\ (CalculateStatsCall \/ PrintStatsCall))
           => stats' = stats]_vars

\* C8 witness: CalculateStats has returned twice in a row over Series of 3
\* and 4 samples that are not all equal.
C8_Witness ==
    /\ reads = 2
    /\ \E op \in DOMAIN stats : BagOf(Results[op]) = (1 :> 2) @@ (2 :> 1)
    /\ \E op \in DOMAIN stats : BagOf(Results[op]) = (1 :> 1) @@ (2 :> 3)

\* C9: main's trials run one at a time in program order, all `iterations`
\* trials of one operation before the first of the next, and statistics are
\* read only once, at the end, after the last trial of the last operation:
\* nothing is added during or after the read.
C9_TrialsInOrderThenRead ==
    /\ IsPrefix(log, Schedule(MainOps(namespaces), iterations))
    /\ pc = "runBenchmark" => name = MainOps(namespaces)[next]
    /\ reads > 0 =>
          /\ pc = "done"
          /\ reads = 1
          /\ log = Schedule(MainOps(namespaces), iterations)
    /\ pc = "done" => reads > 0

\* C9 witness: main has finished over one namespace: nine operations, one
\* trial each.
C9_Witness ==
    /\ pc = "done"
    /\ Len(namespaces) = 1
    /\ Len(log) = 9
    /\ log = MainOps(namespaces)
    /\ Len(report) = 8

\* C10: each Series holds exactly the bag of durations Added under its name,
\* no step shortens a Series, and no step removes an operation name.
C10_SeriesKeepWhatWasAdded ==
    /\ [](\A op \in AllNames : BagOf(Get(Results, op)) = added[op])
    /\ [][/\ DOMAIN Results \subseteq DOMAIN Results'
           /\ \A op \in DOMAIN Results :
                 Len(Results'[op]) >= Len(Results[op])]_vars

\* C10 witness: CalculateStats and PrintStats have run over a Series of four
\* samples, two of each value, and no Add has followed.
C10_Witness ==
    /\ reads > 0
    /\ report # <<>>
    /\ \E op \in DOMAIN Results :
          /\ Results[op] = <<1, 1, 2, 2>>
          /\ added[op] = (1 :> 2) @@ (2 :> 2)

\* C11: the median CalculateStats returns for a Series is never greater than
\* the p95 it returns, and the index the p95 is read at is never below the
\* upper middle index n / 2, for every n from 1 to MaxRank.
C11_MedianAtMostP95 ==
    /\ reads > 0 =>
          \A op \in DOMAIN stats : stats[op].median <= stats[op].p95
    /\ \A n \in 1..MaxRank : P95Index(n) >= n \div 2

\* C11 witness: a Series of one sample, whose median is its p95, next to a
\* Series of the two samples 1 and 2, whose median 1 is below its p95 2.
C11_Witness ==
    /\ reads > 0
    /\ \E op \in DOMAIN stats :
          /\ Len(Results[op]) = 1
          /\ stats[op].median = stats[op].p95
    /\ \E op \in DOMAIN stats :
          /\ BagOf(Results[op]) = (1 :> 1) @@ (2 :> 1)
          /\ stats[op].median = 1
          /\ stats[op].p95 = 2

====
